---- MODULE Spec2Model ----
(***************************************************************************)
(* Model of the schema diff engine of graphql-inspector                     *)
(* (pkg/core/diff.go): DiffSchemas and the comparators it calls.            *)
(*                                                                         *)
(* Strings that the code compares with < (change paths) are sequences of    *)
(* byte values, so that Go's bytewise string order is the order of the      *)
(* model.  A Go map iteration has no fixed order: every comparator is the   *)
(* SET of change sequences it can return, one per iteration order.          *)
(***************************************************************************)
EXTENDS Integers, Sequences, FiniteSets, TLC

VARIABLES oldSchema, newSchema, options, pc, changes, err,
          flags, stdout, exit,
          schema, documents, coverage, result, unusedTypes

\* The state of a coverage analysis.
covVars == <<schema, documents, coverage, result, unusedTypes>>

vars == <<oldSchema, newSchema, options, pc, changes, err, flags, stdout, exit,
          covVars>>

\* The nil pointer, and the nil error.
Nil == [nil |-> TRUE]

NoError == "nil"

\* No coverage analysis is under way.
NoCoverage ==
    /\ schema = Nil
    /\ documents = <<>>
    /\ coverage = Nil
    /\ result = Nil
    /\ unusedTypes = <<>>

(***************************************************************************)
(* Names, as byte strings.                                                  *)
(***************************************************************************)
NameT == <<84>>
NameU == <<85>>
NameA == <<97>>
NameB == <<98>>
NameX == <<120>>
NameY == <<121>>
NameV == <<86>>
NameQ == <<81>>
NameM == <<77>>
NameS == <<83>>
NameD == <<100>>
NameString == <<83, 116, 114, 105, 110, 103>>
NameID == <<73, 68>>
NameUser == <<85, 115, 101, 114>>
NameId == <<105, 100>>
NameName == <<110, 97, 109, 101>>
NameEmail == <<101, 109, 97, 105, 108>>
NameAvatar == <<97, 118, 97, 116, 97, 114>>
NameQuery == <<81, 117, 101, 114, 121>>
NameMutation == <<77, 117, 116, 97, 116, 105, 111, 110>>
NameSubscription == <<83, 117, 98, 115, 99, 114, 105, 112, 116, 105, 111, 110>>
NameHello == <<104, 101, 108, 108, 111>>
NameNoop == <<110, 111, 111, 112>>

\* Go's < on strings: bytewise lexicographic, a proper prefix is smaller.
RECURSIVE StrLess(_, _)
StrLess(s, t) ==
    IF t = <<>> THEN FALSE
    ELSE IF s = <<>> THEN TRUE
    ELSE IF Head(s) # Head(t) THEN Head(s) < Head(t)
    ELSE StrLess(Tail(s), Tail(t))

\* fmt.Sprintf("%s.%s", typeName, fieldName)
FieldPath(typeName, fieldName) == typeName \o <<46>> \o fieldName

\* fmt.Sprintf("%s.%s(%s:)", typeName, fieldName, argName)
ArgPath(typeName, fieldName, argName) ==
    typeName \o <<46>> \o fieldName \o <<40>> \o argName \o <<58, 41>>

(***************************************************************************)
(* Change types (pkg/core types).                                           *)
(***************************************************************************)
ChangeTypeBreaking == "BREAKING"
ChangeTypeDangerous == "DANGEROUS"
ChangeTypeNonBreaking == "NON_BREAKING"

\* The Change struct.  Message is the format of the message; the values
\* formatted into it are those of Meta.
Change(type, message, path, criticality, meta) ==
    [Type |-> type, Message |-> message, Path |-> path,
     Criticality |-> criticality, Meta |-> meta]

NoMeta == <<>>

(***************************************************************************)
(* Type references.  A reference is the chain of wrappers around a pointer  *)
(* to a named type: wrap lists the wrappers outermost first, name is the    *)
(* name of the named type, and obj is the class of the pointed-to object    *)
(* under reflect.DeepEqual (two named-type pointers are DeepEqual iff they  *)
(* are the same pointer or point to deeply equal values, funcs included).   *)
(***************************************************************************)
Ref(wrap, name, obj) == [wrap |-> wrap, name |-> name, obj |-> obj]

IsNonNull(t) == t.wrap # <<>> /\ Head(t.wrap) = "NonNull"

OfType(t) == [t EXCEPT !.wrap = Tail(t.wrap)]

RECURSIVE WrapString(_, _)
WrapString(wrap, name) ==
    IF wrap = <<>> THEN name
    ELSE IF Head(wrap) = "NonNull" THEN WrapString(Tail(wrap), name) \o <<33>>
    ELSE <<91>> \o WrapString(Tail(wrap), name) \o <<93>>

getTypeString(t) == WrapString(t.wrap, t.name)

\* getTypeKind with the Interface case returning the Object string.
getTypeKindCopyPaste(node) ==
    CASE node.kind = "Object" -> "OBJECT"
      [] node.kind = "Interface" -> "OBJECT"
      [] node.kind = "Union" -> "UNION"
      [] node.kind = "Enum" -> "ENUM"
      [] node.kind = "InputObject" -> "INPUT_OBJECT"
      [] node.kind = "Scalar" -> "SCALAR"
      [] OTHER -> "UNKNOWN"

getTypeKind(node) ==
    CASE node.kind = "Object" -> "OBJECT"
      [] node.kind = "Interface" -> "INTERFACE"
      [] node.kind = "Union" -> "UNION"
      [] node.kind = "Enum" -> "ENUM"
      [] node.kind = "InputObject" -> "INPUT_OBJECT"
      [] node.kind = "Scalar" -> "SCALAR"
      [] OTHER -> "UNKNOWN"

areTypesEqual(oldType, newType) == oldType = newType

\* isTypeWidening that looks only at the named type under the wrappers.
isTypeWideningNamed(oldType, newType) ==
    IsNonNull(oldType) /\ oldType.name = newType.name /\ oldType.obj = newType.obj

RECURSIVE isTypeWidening(_, _)
isTypeWidening(oldType, newType) ==
    IF IsNonNull(oldType)
    THEN IF ~IsNonNull(newType)
         THEN areTypesEqual(OfType(oldType), newType)
         ELSE isTypeWidening(OfType(oldType), OfType(newType))
    ELSE FALSE

isRequiredType(t) == IsNonNull(t)

(***************************************************************************)
(* Iteration of a Go map: every order of the keys can happen.               *)
(***************************************************************************)
RECURSIVE Perms(_)
Perms(S) ==
    IF S = {} THEN {<<>>}
    ELSE UNION {{<<x>> \o p : p \in Perms(S \ {x})} : x \in S}

\* The sequences a loop over the keys S can append, when the body appends
\* exactly f[k] for key k.
RangeAppend(S, f) == {[i \in 1..Len(p) |-> f[p[i]]] : p \in Perms(S)}

\* The sequences a loop over the keys in order p can append, when the body
\* appends one of the sequences of g[k] for key k.
RECURSIVE ConcatAll(_, _)
ConcatAll(p, g) ==
    IF p = <<>> THEN {<<>>}
    ELSE {x \o y : x \in g[Head(p)], y \in ConcatAll(Tail(p), g)}

RangeAppendAll(S, g) == UNION {ConcatAll(p, g) : p \in Perms(S)}

(***************************************************************************)
(* The comparators.                                                         *)
(***************************************************************************)
compareFieldArguments(typeName, fieldName, oldArgs, newArgs, opts) ==
    LET oldArgMap == oldArgs
        newArgMap == newArgs
        removed == [argName \in DOMAIN oldArgMap \ DOMAIN newArgMap |->
            Change(ChangeTypeBreaking, "Argument was removed from field",
                   ArgPath(typeName, fieldName, argName), "HIGH",
                   [typeName |-> typeName, fieldName |-> fieldName,
                    argName |-> argName])]
        added == [argName \in DOMAIN newArgMap \ DOMAIN oldArgMap |->
            LET required == isRequiredType(newArgMap[argName].Type)
            IN Change(IF required THEN ChangeTypeBreaking ELSE ChangeTypeNonBreaking,
                      "Argument was added to field",
                      ArgPath(typeName, fieldName, argName),
                      IF required THEN "HIGH" ELSE "LOW",
                      [typeName |-> typeName, fieldName |-> fieldName,
                       argName |-> argName,
                       argType |-> getTypeString(newArgMap[argName].Type)])]
    IN {r \o a : r \in RangeAppend(DOMAIN removed, removed),
                 a \in RangeAppend(DOMAIN added, added)}

\* compareField that sets the change type of a widening and leaves the
\* criticality at its initial value.
compareFieldStaleCriticality(typeName, fieldName, oldField, newField, opts) ==
    LET widening == isTypeWidening(oldField.Type, newField.Type)
        typeChange ==
            IF ~areTypesEqual(oldField.Type, newField.Type)
            THEN <<Change(IF widening THEN ChangeTypeDangerous ELSE ChangeTypeBreaking,
                          "Field changed type",
                          FieldPath(typeName, fieldName),
                          "HIGH",
                          [typeName |-> typeName, fieldName |-> fieldName,
                           oldType |-> getTypeString(oldField.Type),
                           newType |-> getTypeString(newField.Type)])>>
            ELSE <<>>
        descChange ==
            IF ~opts.IgnoreDescriptions /\ oldField.Description # newField.Description
            THEN <<Change(ChangeTypeNonBreaking, "Field description changed",
                          FieldPath(typeName, fieldName), "LOW", NoMeta)>>
            ELSE <<>>
    IN {typeChange \o descChange \o a :
            a \in compareFieldArguments(typeName, fieldName,
                                        oldField.Args, newField.Args, opts)}

compareField(typeName, fieldName, oldField, newField, opts) ==
    LET widening == isTypeWidening(oldField.Type, newField.Type)
        typeChange ==
            IF ~areTypesEqual(oldField.Type, newField.Type)
            THEN <<Change(IF widening THEN ChangeTypeDangerous ELSE ChangeTypeBreaking,
                          "Field changed type",
                          FieldPath(typeName, fieldName),
                          IF widening THEN "MEDIUM" ELSE "HIGH",
                          [typeName |-> typeName, fieldName |-> fieldName,
                           oldType |-> getTypeString(oldField.Type),
                           newType |-> getTypeString(newField.Type)])>>
            ELSE <<>>
        descChange ==
            IF ~opts.IgnoreDescriptions /\ oldField.Description # newField.Description
            THEN <<Change(ChangeTypeNonBreaking, "Field description changed",
                          FieldPath(typeName, fieldName), "LOW", NoMeta)>>
            ELSE <<>>
    IN {typeChange \o descChange \o a :
            a \in compareFieldArguments(typeName, fieldName,
                                        oldField.Args, newField.Args, opts)}

\* compareFields whose loop over the new fields tests newFields instead of
\* oldFields, so that no field is ever reported as added.
compareFieldsSelfTest(typeName, oldFields, newFields, opts) ==
    LET removed == [fieldName \in DOMAIN oldFields \ DOMAIN newFields |->
            Change(ChangeTypeBreaking, "Field was removed",
                   FieldPath(typeName, fieldName), "HIGH",
                   [typeName |-> typeName, fieldName |-> fieldName])]
        modified == [fieldName \in DOMAIN oldFields \cap DOMAIN newFields |->
            compareField(typeName, fieldName, oldFields[fieldName],
                         newFields[fieldName], opts)]
    IN {r \o m : r \in RangeAppend(DOMAIN removed, removed),
                 m \in RangeAppendAll(DOMAIN modified, modified)}

compareFields(typeName, oldFields, newFields, opts) ==
    LET removed == [fieldName \in DOMAIN oldFields \ DOMAIN newFields |->
            Change(ChangeTypeBreaking, "Field was removed",
                   FieldPath(typeName, fieldName), "HIGH",
                   [typeName |-> typeName, fieldName |-> fieldName])]
        added == [fieldName \in DOMAIN newFields \ DOMAIN oldFields |->
            Change(ChangeTypeNonBreaking, "Field was added",
                   FieldPath(typeName, fieldName), "LOW",
                   [typeName |-> typeName, fieldName |-> fieldName])]
        modified == [fieldName \in DOMAIN oldFields \cap DOMAIN newFields |->
            compareField(typeName, fieldName, oldFields[fieldName],
                         newFields[fieldName], opts)]
    IN {r \o a \o m : r \in RangeAppend(DOMAIN removed, removed),
                      a \in RangeAppend(DOMAIN added, added),
                      m \in RangeAppendAll(DOMAIN modified, modified)}

compareImplementedInterfaces(typeName, oldInterfaces, newInterfaces, opts) == {<<>>}

\* compareObjectType whose last append takes the field changes again
\* instead of the interface changes.
compareObjectTypeAppendsFieldsAgain(typeName, oldType, newType, opts) ==
    LET descChange ==
            IF ~opts.IgnoreDescriptions /\ oldType.description # newType.description
            THEN <<Change(ChangeTypeNonBreaking, "Description for type changed",
                          typeName, "LOW", NoMeta)>>
            ELSE <<>>
    IN {descChange \o f \o f :
            f \in compareFields(typeName, oldType.fields, newType.fields, opts)}

compareObjectType(typeName, oldType, newType, opts) ==
    LET descChange ==
            IF ~opts.IgnoreDescriptions /\ oldType.description # newType.description
            THEN <<Change(ChangeTypeNonBreaking, "Description for type changed",
                          typeName, "LOW", NoMeta)>>
            ELSE <<>>
    IN {descChange \o f \o i :
            f \in compareFields(typeName, oldType.fields, newType.fields, opts),
            i \in compareImplementedInterfaces(typeName, oldType.interfaces,
                                               newType.interfaces, opts)}

compareInterfaceType(typeName, oldType, newType, opts) == {<<>>}

compareUnionType(typeName, oldType, newType, opts) == {<<>>}

compareEnumType(typeName, oldType, newType, opts) == {<<>>}

compareInputObjectType(typeName, oldType, newType, opts) == {<<>>}

compareScalarType(typeName, oldType, newType, opts) == {<<>>}

compareDirectives(old, new, opts) == {<<>>}

compareSchemaDefinition(old, new, opts) == {<<>>}

compareType(typeName, oldType, newType, opts) ==
    IF getTypeKind(oldType) # getTypeKind(newType)
    THEN {<<Change(ChangeTypeBreaking, "Type changed kind", typeName, "HIGH",
                   [typeName |-> typeName, oldKind |-> getTypeKind(oldType),
                    newKind |-> getTypeKind(newType)])>>}
    ELSE CASE oldType.kind = "Object" ->
                IF newType.kind = "Object"
                THEN compareObjectType(typeName, oldType, newType, opts)
                ELSE {<<>>}
           [] oldType.kind = "Interface" ->
                IF newType.kind = "Interface"
                THEN compareInterfaceType(typeName, oldType, newType, opts)
                ELSE {<<>>}
           [] oldType.kind = "Union" ->
                IF newType.kind = "Union"
                THEN compareUnionType(typeName, oldType, newType, opts)
                ELSE {<<>>}
           [] oldType.kind = "Enum" ->
                IF newType.kind = "Enum"
                THEN compareEnumType(typeName, oldType, newType, opts)
                ELSE {<<>>}
           [] oldType.kind = "InputObject" ->
                IF newType.kind = "InputObject"
                THEN compareInputObjectType(typeName, oldType, newType, opts)
                ELSE {<<>>}
           [] oldType.kind = "Scalar" ->
                IF newType.kind = "Scalar"
                THEN compareScalarType(typeName, oldType, newType, opts)
                ELSE {<<>>}
           [] OTHER -> {<<>>}

\* compareTypes whose first loop tests "exists" instead of "!exists": the
\* types in both schemas are reported as removed, the removed ones are not.
compareTypesInverted(old, new, opts) ==
    LET oldTypes == old.types
        newTypes == new.types
        removed == [name \in DOMAIN oldTypes \cap DOMAIN newTypes |->
            Change(ChangeTypeBreaking, "Type was removed", name, "HIGH",
                   [typeName |-> name, typeKind |-> getTypeKind(oldTypes[name])])]
        added == [name \in DOMAIN newTypes \ DOMAIN oldTypes |->
            Change(ChangeTypeNonBreaking, "Type was added", name, "LOW",
                   [typeName |-> name, typeKind |-> getTypeKind(newTypes[name])])]
        modified == [name \in DOMAIN oldTypes \cap DOMAIN newTypes |->
            compareType(name, oldTypes[name], newTypes[name], opts)]
    IN {r \o a \o m : r \in RangeAppend(DOMAIN removed, removed),
                      a \in RangeAppend(DOMAIN added, added),
                      m \in RangeAppendAll(DOMAIN modified, modified)}

compareTypes(old, new, opts) ==
    LET oldTypes == old.types
        newTypes == new.types
        removed == [name \in DOMAIN oldTypes \ DOMAIN newTypes |->
            Change(ChangeTypeBreaking, "Type was removed", name, "HIGH",
                   [typeName |-> name, typeKind |-> getTypeKind(oldTypes[name])])]
        added == [name \in DOMAIN newTypes \ DOMAIN oldTypes |->
            Change(ChangeTypeNonBreaking, "Type was added", name, "LOW",
                   [typeName |-> name, typeKind |-> getTypeKind(newTypes[name])])]
        modified == [name \in DOMAIN oldTypes \cap DOMAIN newTypes |->
            compareType(name, oldTypes[name], newTypes[name], opts)]
    IN {r \o a \o m : r \in RangeAppend(DOMAIN removed, removed),
                      a \in RangeAppend(DOMAIN added, added),
                      m \in RangeAppendAll(DOMAIN modified, modified)}

(***************************************************************************)
(* The final sort.  less is the comparator handed to sort.Slice; sort.Slice *)
(* sorts a slice of at most 12 elements by insertion sort.                  *)
(***************************************************************************)
less(ci, cj) ==
    IF ci.Type # cj.Type
    THEN ci.Type = ChangeTypeBreaking
    ELSE StrLess(ci.Path, cj.Path)

RECURSIVE Insert(_, _)
Insert(s, x) ==
    IF s = <<>> \/ ~less(x, s[Len(s)])
    THEN Append(s, x)
    ELSE Append(Insert(SubSeq(s, 1, Len(s) - 1), x), s[Len(s)])

RECURSIVE SortSlice(_)
SortSlice(s) ==
    IF s = <<>> THEN <<>>
    ELSE Insert(SortSlice(SubSeq(s, 1, Len(s) - 1)), s[Len(s)])

DefaultOptions == [IgnoreDescriptions |-> FALSE, IgnoreDirectives |-> FALSE]

\* What DiffSchemas appends before the sort, for every iteration order.
Collected(old, new, o) ==
    LET opts == IF o = Nil THEN DefaultOptions ELSE o
    IN {t \o d \o s :
            t \in compareTypes(old, new, opts),
            d \in (IF ~opts.IgnoreDirectives
                   THEN compareDirectives(old, new, opts) ELSE {<<>>}),
            s \in compareSchemaDefinition(old, new, opts)}

\* The names a type of the schema refers to in the types of its fields, and
\* the names reached from a set of names along such references.
RefNames(s, n) ==
    IF "fields" \in DOMAIN s.types[n]
    THEN {s.types[n].fields[f].Type.name : f \in DOMAIN s.types[n].fields}
    ELSE {}

RECURSIVE ReachedFrom(_, _)
ReachedFrom(s, names) ==
    LET next == names \cup UNION {RefNames(s, n) : n \in names \cap DOMAIN s.types}
    IN IF next = names THEN names ELSE ReachedFrom(s, next)

\* A type of the schema refers to itself through the types of fields.
Cyclic(s) ==
    \E n \in DOMAIN s.types :
        \E m \in RefNames(s, n) : n \in ReachedFrom(s, {m})

\* DiffSchemas whose comparison of two field types follows the fields of the
\* named types: on a schema with a reference cycle the call never returns.
DiffResultsFollowingFields(old, new, o) ==
    IF old = Nil \/ new = Nil
    THEN {<<<<>>, "both schemas must be provided">>}
    ELSE IF Cyclic(old) \/ Cyclic(new)
    THEN {}
    ELSE {<<SortSlice(c), NoError>> : c \in Collected(old, new, o)}

\* DiffSchemas that reports the presence of a BREAKING change as an error.
DiffResultsFailOnBreaking(old, new, o) ==
    IF old = Nil \/ new = Nil
    THEN {<<<<>>, "both schemas must be provided">>}
    ELSE {IF \E i \in 1..Len(c) : c[i].Type = ChangeTypeBreaking
          THEN <<<<>>, "breaking changes found">>
          ELSE <<SortSlice(c), NoError>> : c \in Collected(old, new, o)}

\* The results DiffSchemas can return: <<changes, error>>.
DiffResults(old, new, o) ==
    IF old = Nil \/ new = Nil
    THEN {<<<<>>, "both schemas must be provided">>}
    ELSE {<<SortSlice(c), NoError>> : c \in Collected(old, new, o)}

(***************************************************************************)
(* The inputs: schemas as graphql-go builds them.  A schema maps the names  *)
(* of its types to type objects; an Object or Interface has at least one    *)
(* field; the built-in scalars are the same objects in every schema.        *)
(***************************************************************************)
MaxWrap == 3

Node(kind, description, fields) ==
    [kind |-> kind, description |-> description, fields |-> fields,
     interfaces |-> {}]

Field(type, description, args) ==
    [Type |-> type, Description |-> description, Args |-> args]

Arg(type, hasDefault) == [Type |-> type, DefaultValue |-> hasDefault]

NoArgs == <<>>

NoFields == <<>>

Kinds == {"Object", "Interface", "Union", "Enum", "InputObject", "Scalar"}

\* Wrapper chains of length at most n; NonNull never wraps NonNull.
RECURSIVE Wraps(_)
Wraps(n) ==
    IF n = 0 THEN {<<>>}
    ELSE Wraps(n - 1) \cup
         {<<"List">> \o w : w \in {v \in Wraps(n - 1) : Len(v) = n - 1}} \cup
         {<<"NonNull">> \o w :
              w \in {v \in Wraps(n - 1) :
                        Len(v) = n - 1 /\ ~(v # <<>> /\ Head(v) = "NonNull")}}

StringT == Ref(<<>>, NameString, 0)
StringNN == Ref(<<"NonNull">>, NameString, 0)
IDNN == Ref(<<"NonNull">>, NameID, 0)

ScalarNode == Node("Scalar", 0, NoFields)

\* A partial map, from the pairs <<key, value>> of the present keys.
MapOf(pairs) ==
    [k \in {p[1] : p \in pairs} |-> (CHOOSE p \in pairs : p[1] = k)[2]]

\* name |-> value when value is not Nil, for every name of the choice c.
Present(c) == MapOf({<<k, c[k]>> : k \in {j \in DOMAIN c : c[j] # Nil}})

SchemaOf(types) == [types |-> types]

\* Family A: the set of types.  T and U come and go and change kind.
TypeChoicesA ==
    {Nil} \cup {Node(k, 0, IF k \in {"Object", "Interface"}
                           THEN (NameA :> Field(StringT, 0, NoArgs))
                           ELSE NoFields) : k \in Kinds}
          \cup {Node(k, 1, (NameA :> Field(StringNN, 0, NoArgs)))
                   : k \in {"Object", "Interface"}}

SchemasA ==
    {SchemaOf(Present((NameString :> ScalarNode) @@ (NameT :> t) @@ (NameU :> u)))
        : t \in TypeChoicesA, u \in {Nil, ScalarNode}}

\* Family B: the fields of one type T of kind Object or Interface.
FieldChoicesB ==
    {Nil, Field(StringT, 0, NoArgs), Field(StringNN, 0, NoArgs),
     Field(StringT, 1, NoArgs), Field(StringT, 0, (NameX :> Arg(StringNN, FALSE)))}

SchemasB(kind, descriptions) ==
    {SchemaOf((NameString :> ScalarNode) @@
              (NameT :> Node(kind, d, Present((NameA :> ab[1]) @@ (NameB :> ab[2])))))
        : d \in descriptions,
          ab \in {c \in FieldChoicesB \X FieldChoicesB : c[1] # Nil \/ c[2] # Nil}}

\* Family C: the type of the single field T.a, over every wrapper chain and
\* over a built-in scalar and a type U whose object may differ.
SchemasC(objs) ==
    {SchemaOf((NameString :> ScalarNode) @@ (NameU :> Node("Object", 0,
                   (NameA :> Field(StringT, 0, NoArgs)))) @@
              (NameT :> Node("Object", 0, (NameA :> Field(r, 0, NoArgs)))))
        : r \in {Ref(w, NameString, 0) : w \in Wraps(MaxWrap)}
                \cup {Ref(w, NameU, o) : w \in Wraps(MaxWrap), o \in objs}}

\* Family D: the arguments of the field T.a.
ArgChoicesD ==
    {Nil, Arg(StringT, FALSE), Arg(StringNN, FALSE), Arg(StringNN, TRUE)}

SchemasD ==
    {SchemaOf((NameString :> ScalarNode) @@
              (NameT :> Node("Object", 0,
                   (NameA :> Field(StringT, 0, Present((NameX :> x) @@ (NameY :> y)))))))
        : x \in ArgChoicesD, y \in ArgChoicesD}

\* The schemas of the README's example comparison.
ExampleOld ==
    SchemaOf((NameString :> ScalarNode) @@ (NameID :> ScalarNode) @@
             (NameUser :> Node("Object", 0,
                  (NameId :> Field(IDNN, 0, NoArgs)) @@
                  (NameName :> Field(StringNN, 0, NoArgs)) @@
                  (NameEmail :> Field(StringT, 0, NoArgs)))))

ExampleNew ==
    SchemaOf((NameString :> ScalarNode) @@ (NameID :> ScalarNode) @@
             (NameUser :> Node("Object", 0,
                  (NameId :> Field(IDNN, 0, NoArgs)) @@
                  (NameName :> Field(StringT, 0, NoArgs)) @@
                  (NameAvatar :> Field(StringT, 0, NoArgs)))))

\* Family E: the field T.a refers to U, and U itself changes.  Objects of
\* different contents are not deeply equal.
TypeChoicesE ==
    {<<1, Node("Object", 0, (NameA :> Field(StringT, 0, NoArgs)))>>,
     <<2, Node("Object", 1, (NameA :> Field(StringT, 0, NoArgs)))>>,
     <<3, Node("Object", 0, (NameA :> Field(StringT, 0, NoArgs)) @@
                            (NameB :> Field(StringT, 0, NoArgs)))>>}

SchemasE ==
    {SchemaOf((NameString :> ScalarNode) @@ (NameU :> u[2]) @@
              (NameT :> Node("Object", 0, (NameA :> Field(Ref(w, NameU, u[1]), 0, NoArgs)))))
        : u \in TypeChoicesE, w \in {<<>>, <<"List">>}}

\* A Union with its member types, an Enum with its values, an InputObject
\* with its input fields (name |-> Arg).
UnionNode(members) ==
    [kind |-> "Union", description |-> 0, fields |-> NoFields, interfaces |-> {},
     members |-> members]

EnumNode(values) ==
    [kind |-> "Enum", description |-> 0, fields |-> NoFields, interfaces |-> {},
     values |-> values]

InputObjectNode(inputFields) ==
    [kind |-> "InputObject", description |-> 0, fields |-> NoFields,
     interfaces |-> {}, inputFields |-> inputFields]

\* Family F: the field T.a changes its named type between U and V, where V
\* is a union, an interface or an object, and U is or is not a member or
\* an implementer of V.
TypeChoicesF ==
    LET u == Node("Object", 0, (NameA :> Field(StringT, 0, NoArgs)))
        v == Node("Interface", 0, (NameA :> Field(StringT, 0, NoArgs)))
    IN {<<u, UnionNode({NameU})>>, <<u, UnionNode({NameT})>>,
        <<[u EXCEPT !.interfaces = {NameV}], v>>, <<u, v>>, <<u, u>>}

SchemasF ==
    {SchemaOf((NameString :> ScalarNode) @@ (NameU :> uv[1]) @@ (NameV :> uv[2]) @@
              (NameT :> Node("Object", 0, (NameA :> Field(Ref(<<>>, n, 1), 0, NoArgs)))))
        : uv \in TypeChoicesF, n \in {NameU, NameV}}

\* Family G: the values of an Enum T, the members of a Union T and the
\* input fields of an InputObject T.
InputFieldChoicesG ==
    {c \in {Nil, Arg(StringT, FALSE), Arg(StringNN, FALSE), Arg(StringNN, TRUE)}
           \X {Nil, Arg(StringT, FALSE)} : c[1] # Nil \/ c[2] # Nil}

TypeChoicesG ==
    {EnumNode(v) : v \in (SUBSET {NameA, NameB}) \ {{}}}
    \cup {UnionNode(m) : m \in (SUBSET {NameU, NameV}) \ {{}}}
    \cup {InputObjectNode(Present((NameA :> c[1]) @@ (NameB :> c[2])))
             : c \in InputFieldChoicesG}

SchemasG ==
    {SchemaOf((NameString :> ScalarNode) @@
              (NameU :> Node("Object", 0, (NameA :> Field(StringT, 0, NoArgs)))) @@
              (NameV :> Node("Object", 0, (NameA :> Field(StringT, 0, NoArgs)))) @@
              (NameT :> t))
        : t \in TypeChoicesG}

\* A schema with its root operation types (NoRoot: the schema has no such
\* root) and its directives (name |-> Directive).
NoRoot == <<>>

Directive(locations) == [locations |-> locations, args |-> NoArgs]

SchemaDef(types, query, mutation, subscription, directives) ==
    [types |-> types, query |-> query, mutation |-> mutation,
     subscription |-> subscription, directives |-> directives]

\* Family H: the root operation types and the directive @d.  The root types
\* of a schema are different types.
RootChoicesH ==
    {<<NameQ, NoRoot>>, <<NameQ, NameM>>, <<NameM, NoRoot>>, <<NameM, NameQ>>}
    \X {NoRoot, NameS}

DirectiveChoicesH == {Nil, Directive({"FIELD"}), Directive({"FIELD", "QUERY"})}

SchemasH ==
    {SchemaDef((NameString :> ScalarNode) @@
               (NameQ :> Node("Object", 0, (NameA :> Field(StringT, 0, NoArgs)))) @@
               (NameM :> Node("Object", 0, (NameA :> Field(StringT, 0, NoArgs)))) @@
               (NameS :> Node("Object", 0, (NameA :> Field(StringT, 0, NoArgs)))),
               r[1][1], r[1][2], r[2], Present((NameD :> d)))
        : r \in RootChoicesH, d \in DirectiveChoicesH}

\* The references of a schema.
RefsOf(s) ==
    UNION {UNION {{s.types[n].fields[f].Type} \cup
                  {s.types[n].fields[f].Args[a].Type
                      : a \in DOMAIN s.types[n].fields[f].Args}
                     : f \in DOMAIN s.types[n].fields}
              : n \in DOMAIN s.types}
    \cup UNION {{s.types[n].inputFields[f].Type : f \in DOMAIN s.types[n].inputFields}
                   : n \in {k \in DOMAIN s.types : "inputFields" \in DOMAIN s.types[k]}}

\* Every reference resolves to the one object of that name in its schema.
WellFormed(s) ==
    \A r \in RefsOf(s) :
        /\ r.name \in DOMAIN s.types
        /\ \A q \in RefsOf(s) : q.name = r.name => q.obj = r.obj

\* Deeply equal objects have equal contents.
ValidPair(old, new) ==
    /\ WellFormed(old)
    /\ WellFormed(new)
    /\ \A r \in RefsOf(old), q \in RefsOf(new) :
          (r.name = q.name /\ r.obj = q.obj) => old.types[r.name] = new.types[q.name]

Inputs ==
    {p \in (SchemasA \X SchemasA)
           \cup (SchemasB("Object", {0}) \X SchemasB("Object", {0, 1}))
           \cup (SchemasB("Interface", {0}) \X SchemasB("Interface", {0, 1}))
           \cup (SchemasC({1}) \X SchemasC({1, 2}))
           \cup (SchemasD \X SchemasD)
           \cup (SchemasE \X SchemasE)
           \cup (SchemasF \X SchemasF)
           \cup (SchemasG \X SchemasG)
           \cup (SchemasH \X SchemasH)
           \cup {<<ExampleOld, ExampleNew>>}
        : ValidPair(p[1], p[2])}
    \cup {<<Nil, Nil>>, <<Nil, ExampleNew>>, <<ExampleOld, Nil>>}

Opts == {Nil} \cup [IgnoreDescriptions : BOOLEAN, IgnoreDirectives : BOOLEAN]

(***************************************************************************)
(* The state machine: a caller holds two schemas and options and calls      *)
(* DiffSchemas, any number of times.                                        *)
(***************************************************************************)
\* The flags of the diff command as viper holds them (all false when set
\* by no one), and what the command has written to standard output.
NoFlags ==
    [json |-> FALSE, failOnBreaking |-> FALSE, failOnDangerous |-> FALSE,
     ignoreDescriptions |-> FALSE, ignoreDirectives |-> FALSE]

calculateDiffSummary(cs) ==
    [Breaking |-> Cardinality({i \in 1..Len(cs) : cs[i].Type = ChangeTypeBreaking}),
     Dangerous |-> Cardinality({i \in 1..Len(cs) : cs[i].Type = ChangeTypeDangerous}),
     NonBreaking |-> Cardinality({i \in 1..Len(cs) : cs[i].Type = ChangeTypeNonBreaking})]

NoOutput == [format |-> "none", changes |-> <<>>, summary |-> calculateDiffSummary(<<>>)]

Init ==
    /\ \E p \in Inputs : oldSchema = p[1] /\ newSchema = p[2]
    /\ options \in Opts
    /\ pc = "ready"
    /\ changes = <<>>
    /\ err = NoError
    /\ flags = NoFlags
    /\ stdout = NoOutput
    /\ exit = NoError
    /\ NoCoverage

\* DiffSchemas that stores the default options through the caller's
\* reference when it was given none.
DiffSchemasStoresDefaults ==
    /\ \E r \in DiffResults(oldSchema, newSchema, options) :
          /\ changes' = r[1]
          /\ err' = r[2]
    /\ pc' = "done"
    /\ options' = IF options = Nil /\ oldSchema # Nil /\ newSchema # Nil
                  THEN DefaultOptions ELSE options
    /\ UNCHANGED <<oldSchema, newSchema, flags, stdout, exit, covVars>>

DiffSchemas ==
    /\ \E r \in DiffResults(oldSchema, newSchema, options) :
          /\ changes' = r[1]
          /\ err' = r[2]
    /\ pc' = "done"
    /\ UNCHANGED <<oldSchema, newSchema, options, flags, stdout, exit, covVars>>

Next == DiffSchemas

Spec == Init /\ [][Next]_vars

(***************************************************************************)
(* Schemas handed to DiffSchemas with a type map that lacks a type a field  *)
(* or an argument refers to (the type map of a *graphql.Schema is a Go map  *)
(* its holder can change).                                                  *)
(***************************************************************************)
\* A reference of the schema names a type its type map does not hold.
Dangling(s) == \E r \in RefsOf(s) : r.name \notin DOMAIN s.types

\* Family I: T.a is a String or refers to U, with or without an argument of
\* type U; U is in the type map or not.
SchemasI ==
    {SchemaOf((NameString :> ScalarNode) @@
              (NameT :> Node("Object", 0,
                    (NameA :> Field(t, 0, Present((NameX :> x)))))) @@
              Present((NameU :> u)))
        : t \in {StringT, Ref(<<>>, NameU, 1), Ref(<<"List">>, NameU, 1)},
          x \in {Nil, Arg(Ref(<<>>, NameU, 1), FALSE)},
          u \in {Nil, Node("Object", 0, (NameA :> Field(StringT, 0, NoArgs)))}}

InputsDangling ==
    {p \in SchemasI \X SchemasI : Dangling(p[1]) \/ Dangling(p[2])}

InitDangling ==
    /\ \E p \in InputsDangling : oldSchema = p[1] /\ newSchema = p[2]
    /\ options \in Opts
    /\ pc = "ready"
    /\ changes = <<>>
    /\ err = NoError
    /\ flags = NoFlags
    /\ stdout = NoOutput
    /\ exit = NoError
    /\ NoCoverage

SpecDangling == InitDangling /\ [][Next]_vars

(***************************************************************************)
(* Schemas whose types refer to each other in a cycle: T.a is of type U     *)
(* and U.a a list of T.  Any difference between two such schemas makes the  *)
(* objects of both types differ.                                            *)
(***************************************************************************)
VariantsJ ==
    {<<1, <<>>, <<"List">>, 0>>, <<2, <<"NonNull">>, <<"List">>, 0>>,
     <<3, <<>>, <<"NonNull", "List">>, 0>>, <<4, <<"NonNull">>, <<"NonNull", "List">>, 0>>,
     <<5, <<>>, <<"List">>, 1>>, <<6, <<"NonNull">>, <<"List">>, 1>>,
     <<7, <<>>, <<"List", "NonNull">>, 0>>, <<8, <<"List">>, <<>>, 0>>}

SchemasJ ==
    {SchemaOf((NameString :> ScalarNode) @@
              (NameT :> Node("Object", v[4], (NameA :> Field(Ref(v[2], NameU, v[1]), 0, NoArgs)))) @@
              (NameU :> Node("Object", 0, (NameA :> Field(Ref(v[3], NameT, v[1]), 0, NoArgs)) @@
                                           (NameB :> Field(StringT, 0, NoArgs)))))
        : v \in VariantsJ}

InitCyclic ==
    /\ \E p \in {q \in SchemasJ \X SchemasJ : ValidPair(q[1], q[2])} :
          oldSchema = p[1] /\ newSchema = p[2]
    /\ options \in Opts
    /\ pc = "ready"
    /\ changes = <<>>
    /\ err = NoError
    /\ flags = NoFlags
    /\ stdout = NoOutput
    /\ exit = NoError
    /\ NoCoverage

\* A call of DiffSchemas that can return does return.
SpecCyclic == InitCyclic /\ [][Next]_vars /\ WF_vars(DiffSchemas)

(***************************************************************************)
(* The diff command (cmd/diff.go): runDiff loads the two schemas, calls     *)
(* DiffSchemas with the options of its flags and writes the result with     *)
(* outputDiffJSON or outputDiffText.                                        *)
(***************************************************************************)
\* The schema buildSchemaFromSDL builds from a parsed document: a Query
\* type, and a Mutation and a Subscription type when the document's schema
\* definition names these operations.
buildSchemaFromSDL(hasMutation, hasSubscription) ==
    SchemaOf((NameString :> ScalarNode) @@
             (NameQuery :> Node("Object", 0, (NameHello :> Field(StringT, 0, NoArgs)))) @@
             (IF hasMutation
              THEN (NameMutation :> Node("Object", 0, (NameNoop :> Field(StringT, 0, NoArgs))))
              ELSE <<>>) @@
             (IF hasSubscription
              THEN (NameSubscription :> Node("Object", 0, (NameNoop :> Field(StringT, 0, NoArgs))))
              ELSE <<>>))

\* What LoadSchema returns: a schema, or Nil with an error.
LoadSchema == {Nil} \cup {buildSchemaFromSDL(m, s) : m, s \in BOOLEAN}

InitCli ==
    /\ oldSchema \in LoadSchema
    /\ newSchema \in LoadSchema
    /\ flags \in [json : BOOLEAN, failOnBreaking : BOOLEAN, failOnDangerous : BOOLEAN,
                  ignoreDescriptions : BOOLEAN, ignoreDirectives : BOOLEAN]
    /\ options = Nil
    /\ pc = "ready"
    /\ changes = <<>>
    /\ err = NoError
    /\ stdout = NoOutput
    /\ exit = NoError
    /\ NoCoverage

\* runDiff up to its call of an output function.
runDiff ==
    /\ pc = "ready"
    /\ IF oldSchema = Nil
       THEN /\ exit' = "failed to load old schema"
            /\ pc' = "exited"
            /\ UNCHANGED <<options, changes, err>>
       ELSE IF newSchema = Nil
       THEN /\ exit' = "failed to load new schema"
            /\ pc' = "exited"
            /\ UNCHANGED <<options, changes, err>>
       ELSE /\ options' = [IgnoreDescriptions |-> flags.ignoreDescriptions,
                           IgnoreDirectives |-> flags.ignoreDirectives]
            /\ \E r \in DiffResults(oldSchema, newSchema, options') :
                  /\ changes' = r[1]
                  /\ err' = r[2]
                  /\ IF r[2] # NoError
                     THEN exit' = "failed to compare schemas" /\ pc' = "exited"
                     ELSE exit' = exit /\ pc' = "output"
    /\ UNCHANGED <<oldSchema, newSchema, flags, stdout, covVars>>

filterChangesByType(cs, changeType) == SelectSeq(cs, LAMBDA c : c.Type = changeType)

outputDiffJSON ==
    /\ pc = "output" /\ flags.json
    /\ stdout' = [format |-> "json", changes |-> changes,
                  summary |-> calculateDiffSummary(changes)]
    /\ exit' = NoError
    /\ pc' = "exited"
    /\ UNCHANGED <<oldSchema, newSchema, options, changes, err, flags, covVars>>

outputDiffText ==
    /\ pc = "output" /\ ~flags.json
    /\ LET summary == calculateDiffSummary(changes)
       IN /\ stdout' = [format |-> "text",
                        changes |-> filterChangesByType(changes, ChangeTypeBreaking)
                                    \o filterChangesByType(changes, ChangeTypeDangerous)
                                    \o filterChangesByType(changes, ChangeTypeNonBreaking),
                        summary |-> summary]
          /\ exit' = IF Len(changes) = 0 THEN NoError
                     ELSE IF flags.failOnBreaking /\ summary.Breaking > 0
                     THEN "breaking changes detected"
                     ELSE IF flags.failOnDangerous /\ summary.Dangerous > 0
                     THEN "dangerous changes detected"
                     ELSE NoError
    /\ pc' = "exited"
    /\ UNCHANGED <<oldSchema, newSchema, options, changes, err, flags, covVars>>

NextCli == runDiff \/ outputDiffJSON \/ outputDiffText

SpecCli == InitCli /\ [][NextCli]_vars

(***************************************************************************)
(* Schema coverage (pkg/core coverage): AnalyzeCoverage initializes the     *)
(* coverage of every type, analyzes the documents one by one and computes   *)
(* the statistics; FindUnusedTypes calls it and lists the types that are    *)
(* not covered.  A document is the sequence of the names of its Field       *)
(* nodes in the order the visitor enters them, or a text that does not      *)
(* parse.                                                                   *)
(***************************************************************************)
MaxDocuments == 2
MaxDocFields == 2

\* strings.HasPrefix
HasPrefix(s, prefix) ==
    Len(prefix) <= Len(s) /\ SubSeq(s, 1, Len(prefix)) = prefix

TypeCoverage(type, covered, fields, usageCount) ==
    [Type |-> type, Covered |-> covered, Fields |-> fields, UsageCount |-> usageCount]

initializeCoverage(s) ==
    [typeName \in {n \in DOMAIN s.types : ~HasPrefix(n, <<95, 95>>)} |->
        TypeCoverage(typeName, FALSE,
                     IF s.types[typeName].kind \in {"Object", "Interface"}
                     THEN [fieldName \in DOMAIN s.types[typeName].fields |-> FALSE]
                     ELSE <<>>,
                     0)]

\* trackFieldUsage that marks every type as covered, whether or not it has
\* a field of the name.
trackFieldUsageMarksAll(cov, fieldName) ==
    [n \in DOMAIN cov |->
        IF fieldName \in DOMAIN cov[n].Fields
        THEN [cov[n] EXCEPT !.Covered = TRUE,
                            !.Fields[fieldName] = TRUE,
                            !.UsageCount = @ + 1]
        ELSE [cov[n] EXCEPT !.Covered = TRUE]]

trackFieldUsage(cov, fieldName) ==
    [n \in DOMAIN cov |->
        IF fieldName \in DOMAIN cov[n].Fields
        THEN [cov[n] EXCEPT !.Covered = TRUE,
                            !.Fields[fieldName] = TRUE,
                            !.UsageCount = @ + 1]
        ELSE cov[n]]

\* The visit of the Field nodes of a parsed document.
RECURSIVE Visit(_, _)
Visit(cov, fieldNames) ==
    IF fieldNames = <<>> THEN cov
    ELSE Visit(trackFieldUsage(cov, Head(fieldNames)), Tail(fieldNames))

\* analyzeDocument: the coverage after the document, and whether it
\* returned an error.
analyzeDocument(cov, doc) ==
    IF doc.parses
    THEN [coverage |-> Visit(cov, doc.fields), err |-> FALSE]
    ELSE [coverage |-> cov, err |-> TRUE]

convertCoverageMap(cov) == [typeName \in DOMAIN cov |-> cov[typeName]]

\* Coverage is the quotient FieldsCovered / TotalFields, kept as the pair
\* <<numerator, denominator>>; 0 when there is no field.
calculateCoverageStats(cov) ==
    LET totalTypes == Cardinality(DOMAIN cov)
        typesCovered == Cardinality({n \in DOMAIN cov : cov[n].Covered})
        allFields == UNION {{<<n, f>> : f \in DOMAIN cov[n].Fields} : n \in DOMAIN cov}
        totalFields == Cardinality(allFields)
        fieldsCovered == Cardinality({nf \in allFields : cov[nf[1]].Fields[nf[2]]})
    IN [Coverage |-> IF totalFields > 0 THEN <<fieldsCovered, totalFields>> ELSE <<0, 1>>,
        TypesCovered |-> typesCovered,
        TotalTypes |-> totalTypes,
        FieldsCovered |-> fieldsCovered,
        TotalFields |-> totalFields,
        Details |-> convertCoverageMap(cov)]

\* The loop of AnalyzeCoverage over the documents.
RECURSIVE AnalyzeDocuments(_, _)
AnalyzeDocuments(cov, docs) ==
    IF docs = <<>> THEN cov
    ELSE AnalyzeDocuments(analyzeDocument(cov, Head(docs)).coverage, Tail(docs))

\* What AnalyzeCoverage returns: <<result, error>>.
AnalyzeCoverageResult(s, docs) ==
    IF s = Nil THEN <<Nil, "schema is required">>
    ELSE <<calculateCoverageStats(AnalyzeDocuments(initializeCoverage(s), docs)), NoError>>

\* What FindUnusedTypes can return, for every iteration order of Details.
FindUnusedTypesResults(s, docs) ==
    LET r == AnalyzeCoverageResult(s, docs)
    IN IF r[2] # NoError THEN {<<<<>>, r[2]>>}
       ELSE {<<p, NoError>> :
                p \in Perms({n \in DOMAIN r[1].Details : ~r[1].Details[n].Covered})}

\* The inputs.  Family K: T is an Object with the fields a and b, or with b
\* alone; U is an Interface with the field a or b, an Enum, or absent; __Type is
\* an introspection type.
NameIntrospection == <<95, 95, 84, 121, 112, 101>>
NameZ == <<122>>

SchemasK ==
    {SchemaOf((NameString :> ScalarNode) @@
              (NameIntrospection :> Node("Object", 0, (NameName :> Field(StringT, 0, NoArgs)))) @@
              (NameT :> Node("Object", 0, tf) @@ Present((NameU :> u))))
        : tf \in {(NameA :> Field(StringT, 0, NoArgs)) @@ (NameB :> Field(StringT, 0, NoArgs)),
                  (NameB :> Field(StringT, 0, NoArgs))},
          u \in {Nil, Node("Interface", 0, (NameA :> Field(StringT, 0, NoArgs))),
                 Node("Interface", 0, (NameB :> Field(StringT, 0, NoArgs))),
                 EnumNode({NameA})}}

RECURSIVE SeqsUpTo(_, _)
SeqsUpTo(S, n) ==
    IF n = 0 THEN {<<>>}
    ELSE SeqsUpTo(S, n - 1) \cup
         {<<x>> \o q : x \in S, q \in {v \in SeqsUpTo(S, n - 1) : Len(v) = n - 1}}

DocumentChoices ==
    {[parses |-> FALSE, fields |-> <<>>]} \cup
    {[parses |-> TRUE, fields |-> f] : f \in SeqsUpTo({NameA, NameZ}, MaxDocFields)}

InitCoverage ==
    /\ schema \in {Nil} \cup SchemasK
    /\ documents \in SeqsUpTo(DocumentChoices, MaxDocuments)
    /\ coverage = Nil
    /\ result = Nil
    /\ unusedTypes = <<>>
    /\ pc = "ready"
    /\ err = NoError
    /\ oldSchema = Nil /\ newSchema = Nil /\ options = Nil /\ changes = <<>>
    /\ flags = NoFlags /\ stdout = NoOutput /\ exit = NoError

\* AnalyzeCoverage up to its loop over the documents.
AnalyzeCoverage ==
    /\ pc = "ready"
    /\ IF schema = Nil
       THEN /\ err' = "schema is required"
            /\ pc' = "analyzed"
            /\ UNCHANGED coverage
       ELSE /\ coverage' = initializeCoverage(schema)
            /\ pc' = "analyzing"
            /\ UNCHANGED err
    /\ UNCHANGED <<schema, documents, result, unusedTypes>>
    /\ UNCHANGED <<oldSchema, newSchema, options, changes, flags, stdout, exit>>

\* One turn of the loop: the document is analyzed, or skipped on an error.
AnalyzeDocument ==
    /\ pc = "analyzing" /\ documents # <<>>
    /\ coverage' = analyzeDocument(coverage, Head(documents)).coverage
    /\ documents' = Tail(documents)
    /\ UNCHANGED <<schema, result, unusedTypes, pc>>
    /\ UNCHANGED <<oldSchema, newSchema, options, changes, err, flags, stdout, exit>>

\* The end of AnalyzeCoverage.
CalculateCoverageStats ==
    /\ pc = "analyzing" /\ documents = <<>>
    /\ result' = calculateCoverageStats(coverage)
    /\ pc' = "analyzed"
    /\ UNCHANGED <<schema, documents, coverage, unusedTypes>>
    /\ UNCHANGED <<oldSchema, newSchema, options, changes, err, flags, stdout, exit>>

\* FindUnusedTypes, with the analysis it runs.
FindUnusedTypes ==
    /\ pc = "ready"
    /\ \E r \in FindUnusedTypesResults(schema, documents) :
          /\ unusedTypes' = r[1]
          /\ err' = r[2]
    /\ pc' = "found"
    /\ UNCHANGED <<schema, documents, coverage, result>>
    /\ UNCHANGED <<oldSchema, newSchema, options, changes, flags, stdout, exit>>

NextCoverage ==
    AnalyzeCoverage \/ AnalyzeDocument \/ CalculateCoverageStats \/ FindUnusedTypes

SpecCoverage == InitCoverage /\ [][NextCoverage]_vars

(***************************************************************************)
(* Properties.                                                              *)
(***************************************************************************)
\* DiffSchemas has returned for two schemas.
Called == pc = "done" /\ oldSchema # Nil /\ newSchema # Nil

IsPrefix(p, s) == Len(p) <= Len(s) /\ SubSeq(s, 1, Len(p)) = p

\* The returned changes at a path, and at or below a type.
ChangesAt(path) == {i \in 1..Len(changes) : changes[i].Path = path}

ChangesUnder(typeName) ==
    {i \in 1..Len(changes) :
        \/ changes[i].Path = typeName
        \/ IsPrefix(typeName \o <<46>>, changes[i].Path)}

KindName ==
    [Object |-> "OBJECT", Interface |-> "INTERFACE", Union |-> "UNION",
     Enum |-> "ENUM", InputObject |-> "INPUT_OBJECT", Scalar |-> "SCALAR"]

InBoth == DOMAIN oldSchema.types \cap DOMAIN newSchema.types

BothOfKind(kind) ==
    {n \in InBoth : oldSchema.types[n].kind = kind /\ newSchema.types[n].kind = kind}

SeverityRank(type) ==
    CASE type = ChangeTypeBreaking -> 0
      [] type = ChangeTypeDangerous -> 1
      [] OTHER -> 2

\* C1: comparing a schema with itself under the default options returns no
\* change and no error.
Reflexivity ==
    (Called /\ oldSchema = newSchema /\ options = DefaultOptions)
        => (changes = <<>> /\ err = NoError)

ReflexivityWitness ==
    /\ Called /\ oldSchema = newSchema /\ options = DefaultOptions
    /\ NameT \in DOMAIN oldSchema.types
    /\ oldSchema.types[NameT].kind = "Object"
    /\ \E f \in DOMAIN oldSchema.types[NameT].fields :
          /\ oldSchema.types[NameT].fields[f].Args # NoArgs
          /\ oldSchema.types[NameT].fields[f].Type = StringT

\* C2: a second call of DiffSchemas on the same inputs returns the same
\* ordered changes as the first, whatever the map iteration orders.
Determinism == [][pc = "done" => changes' = changes]_vars

\* C3: in the returned sequence severities never decrease in rank
\* (BREAKING, DANGEROUS, NON_BREAKING) and paths ascend within a severity.
OutputOrdering ==
    Called =>
        \A i, j \in 1..Len(changes) :
            i < j =>
                /\ SeverityRank(changes[i].Type) <= SeverityRank(changes[j].Type)
                /\ changes[i].Type = changes[j].Type
                       => ~StrLess(changes[j].Path, changes[i].Path)

\* C4: the README's example comparison returns User.email removed
\* (BREAKING), User.name String! -> String (DANGEROUS), User.avatar added
\* (NON_BREAKING), in that order.
EndToEndScenario ==
    (Called /\ oldSchema = ExampleOld /\ newSchema = ExampleNew) =>
        /\ Len(changes) = 3
        /\ changes[1].Type = ChangeTypeBreaking
        /\ changes[1].Path = FieldPath(NameUser, NameEmail)
        /\ changes[1].Message = "Field was removed"
        /\ changes[2].Type = ChangeTypeDangerous
        /\ changes[2].Path = FieldPath(NameUser, NameName)
        /\ changes[2].Message = "Field changed type"
        /\ changes[3].Type = ChangeTypeNonBreaking
        /\ changes[3].Path = FieldPath(NameUser, NameAvatar)
        /\ changes[3].Message = "Field was added"

\* C5: a type only in old yields exactly one change at or below its name, a
\* BREAKING "removed" at the name with the type's kind; a type only in new
\* yields exactly one, a NON_BREAKING "added" with the type's kind.
TypeSetDiff ==
    Called =>
        /\ \A n \in DOMAIN oldSchema.types \ DOMAIN newSchema.types :
              /\ Cardinality(ChangesUnder(n)) = 1
              /\ \A i \in ChangesUnder(n) :
                    /\ changes[i].Type = ChangeTypeBreaking
                    /\ changes[i].Message = "Type was removed"
                    /\ changes[i].Path = n
                    /\ changes[i].Meta.typeKind = KindName[oldSchema.types[n].kind]
        /\ \A n \in DOMAIN newSchema.types \ DOMAIN oldSchema.types :
              /\ Cardinality(ChangesUnder(n)) = 1
              /\ \A i \in ChangesUnder(n) :
                    /\ changes[i].Type = ChangeTypeNonBreaking
                    /\ changes[i].Message = "Type was added"
                    /\ changes[i].Path = n
                    /\ changes[i].Meta.typeKind = KindName[newSchema.types[n].kind]

TypeSetDiffWitness ==
    /\ Called
    /\ DOMAIN oldSchema.types \ DOMAIN newSchema.types = {NameT}
    /\ DOMAIN newSchema.types \ DOMAIN oldSchema.types = {NameU}
    /\ oldSchema.types[NameT].kind = "Interface"
    /\ Len(changes) = 2

ReportsRemoved(cs, n) ==
    \E i \in 1..Len(cs) : cs[i].Message = "Type was removed" /\ cs[i].Path = n

ReportsAdded(cs, n) ==
    \E i \in 1..Len(cs) : cs[i].Message = "Type was added" /\ cs[i].Path = n

\* C6: the diff of old against new reports a type removed exactly when the
\* diff of new against old reports it added, and the other way round.
ExistenceSymmetry ==
    Called =>
        \A r \in DiffResults(newSchema, oldSchema, options) :
            \A n \in DOMAIN oldSchema.types \cup DOMAIN newSchema.types :
                /\ ReportsRemoved(changes, n) <=> ReportsAdded(r[1], n)
                /\ ReportsAdded(changes, n) <=> ReportsRemoved(r[1], n)

ExistenceSymmetryWitness ==
    /\ Called
    /\ ReportsRemoved(changes, NameT)
    /\ ReportsAdded(changes, NameU)
    /\ NameString \in InBoth

\* C7: a type in both schemas whose kind differs yields exactly one change
\* at or below its name: a BREAKING change at the name.
KindChange ==
    Called =>
        \A n \in InBoth :
            oldSchema.types[n].kind # newSchema.types[n].kind =>
                /\ Cardinality(ChangesUnder(n)) = 1
                /\ \A i \in ChangesUnder(n) :
                      /\ changes[i].Type = ChangeTypeBreaking
                      /\ changes[i].Path = n
                      /\ changes[i].Message = "Type changed kind"

KindChangeWitness ==
    /\ Called
    /\ NameT \in InBoth
    /\ oldSchema.types[NameT].kind = "Object"
    /\ newSchema.types[NameT].kind = "Interface"
    /\ oldSchema.types[NameT].description # newSchema.types[NameT].description
    /\ oldSchema.types[NameT].fields # newSchema.types[NameT].fields
    /\ ~(IF options = Nil THEN FALSE ELSE options.IgnoreDescriptions)

\* The fields of type n removed and added between old and new.
RemovedFields(n) ==
    DOMAIN oldSchema.types[n].fields \ DOMAIN newSchema.types[n].fields

AddedFields(n) ==
    DOMAIN newSchema.types[n].fields \ DOMAIN oldSchema.types[n].fields

\* The field changes the claims require of a type of the given kind.
FieldSetDiff(kind) ==
    Called =>
        \A n \in BothOfKind(kind) :
            /\ \A f \in RemovedFields(n) :
                  /\ Cardinality(ChangesAt(FieldPath(n, f))) = 1
                  /\ \A i \in ChangesAt(FieldPath(n, f)) :
                        changes[i].Type = ChangeTypeBreaking
            /\ \A f \in AddedFields(n) :
                  /\ Cardinality(ChangesAt(FieldPath(n, f))) = 1
                  /\ \A i \in ChangesAt(FieldPath(n, f)) :
                        changes[i].Type = ChangeTypeNonBreaking

\* C8: on an Object type in both schemas a removed field yields exactly one
\* change at Type.field, BREAKING, and an added field exactly one,
\* NON_BREAKING, whatever the field's type and arguments.
ObjectFieldSetDiff == FieldSetDiff("Object")

ObjectFieldSetDiffWitness ==
    /\ Called
    /\ NameT \in BothOfKind("Object")
    /\ RemovedFields(NameT) = {NameA}
    /\ AddedFields(NameT) = {NameB}
    /\ oldSchema.types[NameT].fields[NameA].Args # NoArgs
    /\ newSchema.types[NameT].fields[NameB].Type = StringNN

\* C9: on an Interface type in both schemas a removed field yields a
\* BREAKING change and an added field a NON_BREAKING change at Type.field.
InterfaceFieldSetDiff == FieldSetDiff("Interface")

\* The object fields in both schemas that differ in nothing but their type.
TypeOnlyFields ==
    {nf \in UNION {{<<n, f>> : f \in DOMAIN oldSchema.types[n].fields
                                     \cap DOMAIN newSchema.types[n].fields}
                      : n \in BothOfKind("Object")} :
        LET o == oldSchema.types[nf[1]].fields[nf[2]]
            w == newSchema.types[nf[1]].fields[nf[2]]
        IN o.Description = w.Description /\ o.Args = w.Args
           /\ o.Type.name = w.Type.name}

ExactlyOneAt(path, type) ==
    /\ Cardinality(ChangesAt(path)) = 1
    /\ \A i \in ChangesAt(path) : changes[i].Type = type

\* C10: a field changed from nullable X to X! yields exactly one change at
\* T.f, BREAKING; a field changed from X! to X yields exactly one change at
\* T.f, DANGEROUS.
NullabilityAsymmetry ==
    Called =>
        \A nf \in TypeOnlyFields :
            LET o == oldSchema.types[nf[1]].fields[nf[2]].Type
                w == newSchema.types[nf[1]].fields[nf[2]].Type
            IN /\ (~IsNonNull(o) /\ w.wrap = <<"NonNull">> \o o.wrap)
                      => ExactlyOneAt(FieldPath(nf[1], nf[2]), ChangeTypeBreaking)
               /\ (~IsNonNull(w) /\ o.wrap = <<"NonNull">> \o w.wrap)
                      => ExactlyOneAt(FieldPath(nf[1], nf[2]), ChangeTypeDangerous)

\* The fields of Object types that are in both schemas, as <<type, field>>.
CommonFields ==
    UNION {{<<n, f>> : f \in DOMAIN oldSchema.types[n].fields
                             \cap DOMAIN newSchema.types[n].fields}
              : n \in BothOfKind("Object")}

OldFieldType(nf) == oldSchema.types[nf[1]].fields[nf[2]].Type

NewFieldType(nf) == newSchema.types[nf[1]].fields[nf[2]].Type

\* The type changes reported for a field.
TypeChangesAt(path) ==
    {i \in ChangesAt(path) : changes[i].Message = "Field changed type"}

\* C11: a field whose type has the same wrappers and the same named type in
\* old and new yields no type change, whatever happened inside that named
\* type.
NameIdentity ==
    Called =>
        \A nf \in CommonFields :
            (/\ OldFieldType(nf).wrap = NewFieldType(nf).wrap
             /\ OldFieldType(nf).name = NewFieldType(nf).name)
                => TypeChangesAt(FieldPath(nf[1], nf[2])) = {}

ListDepth(wrap) == Cardinality({i \in DOMAIN wrap : wrap[i] = "List"})

IsMemberOf(a, b) ==
    /\ a \in DOMAIN newSchema.types
    /\ b \in DOMAIN newSchema.types
    /\ \/ /\ newSchema.types[b].kind = "Union"
          /\ "members" \in DOMAIN newSchema.types[b]
          /\ a \in newSchema.types[b].members
       \/ /\ newSchema.types[b].kind = "Interface"
          /\ b \in newSchema.types[a].interfaces

\* C13: a field whose named type changes from A to B under the same
\* wrappers is reported once: DANGEROUS when B is a union or interface of
\* which A is a member in the new schema, BREAKING otherwise.
NamedTypeChange ==
    Called =>
        \A nf \in CommonFields :
            (/\ OldFieldType(nf).wrap = NewFieldType(nf).wrap
             /\ OldFieldType(nf).name # NewFieldType(nf).name) =>
                /\ Cardinality(TypeChangesAt(FieldPath(nf[1], nf[2]))) = 1
                /\ \A i \in TypeChangesAt(FieldPath(nf[1], nf[2])) :
                      changes[i].Type =
                          IF IsMemberOf(OldFieldType(nf).name, NewFieldType(nf).name)
                          THEN ChangeTypeDangerous
                          ELSE ChangeTypeBreaking

OldArgs(nf) == oldSchema.types[nf[1]].fields[nf[2]].Args

NewArgs(nf) == newSchema.types[nf[1]].fields[nf[2]].Args

\* An argument a caller must supply: NonNull and without a default value.
IsRequiredArg(arg) == IsNonNull(arg.Type) /\ ~arg.DefaultValue

\* C14: an argument added to a field in both schemas yields exactly one
\* change at Type.field(arg:), BREAKING if the argument is NonNull without a
\* default value and NON_BREAKING otherwise.
ArgumentAddition ==
    Called =>
        \A nf \in CommonFields :
            \A a \in DOMAIN NewArgs(nf) \ DOMAIN OldArgs(nf) :
                ExactlyOneAt(ArgPath(nf[1], nf[2], a),
                             IF IsRequiredArg(NewArgs(nf)[a])
                             THEN ChangeTypeBreaking
                             ELSE ChangeTypeNonBreaking)

\* C15: an argument in both schemas whose type changes yields a change at
\* Type.field(arg:): NON_BREAKING when NonNull was relaxed to the same
\* nullable type, BREAKING when nullable was tightened to NonNull or the
\* named type changed.
ArgumentTypeChange ==
    Called =>
        \A nf \in CommonFields :
            \A a \in DOMAIN NewArgs(nf) \cap DOMAIN OldArgs(nf) :
                LET o == OldArgs(nf)[a].Type
                    w == NewArgs(nf)[a].Type
                    at == ChangesAt(ArgPath(nf[1], nf[2], a))
                IN o # w =>
                    /\ at # {}
                    /\ (IsNonNull(o) /\ OfType(o) = w) =>
                           \A i \in at : changes[i].Type = ChangeTypeNonBreaking
                    /\ ((IsNonNull(w) /\ OfType(w) = o) \/ o.name # w.name) =>
                           \A i \in at : changes[i].Type = ChangeTypeBreaking

\* The number of changes of a severity reported at or below a type.
CountUnder(typeName, type) ==
    Cardinality({i \in ChangesUnder(typeName) : changes[i].Type = type})

\* The types of a kind in both schemas that carry the children of that kind.
BothWith(kind, children) ==
    {n \in BothOfKind(kind) :
        children \in DOMAIN oldSchema.types[n] /\ children \in DOMAIN newSchema.types[n]}

\* C16: on an Enum in both schemas every removed value yields a BREAKING
\* change and every added value a DANGEROUS change.
EnumValueSetDiff ==
    Called =>
        \A n \in BothWith("Enum", "values") :
            /\ CountUnder(n, ChangeTypeBreaking) >=
                   Cardinality(oldSchema.types[n].values \ newSchema.types[n].values)
            /\ CountUnder(n, ChangeTypeDangerous) >=
                   Cardinality(newSchema.types[n].values \ oldSchema.types[n].values)

\* C17: on a Union in both schemas every removed member yields a BREAKING
\* change and every added member a DANGEROUS change.
UnionMemberSetDiff ==
    Called =>
        \A n \in BothWith("Union", "members") :
            /\ CountUnder(n, ChangeTypeBreaking) >=
                   Cardinality(oldSchema.types[n].members \ newSchema.types[n].members)
            /\ CountUnder(n, ChangeTypeDangerous) >=
                   Cardinality(newSchema.types[n].members \ oldSchema.types[n].members)

\* C18: on an InputObject in both schemas every removed input field and
\* every added required input field yields a BREAKING change, and every
\* added optional input field a NON_BREAKING change.
InputFieldSetDiff ==
    Called =>
        \A n \in BothWith("InputObject", "inputFields") :
            LET o == oldSchema.types[n].inputFields
                w == newSchema.types[n].inputFields
                added == DOMAIN w \ DOMAIN o
            IN /\ CountUnder(n, ChangeTypeBreaking) >=
                      Cardinality(DOMAIN o \ DOMAIN w)
                      + Cardinality({f \in added : IsRequiredArg(w[f])})
               /\ CountUnder(n, ChangeTypeNonBreaking) >=
                      Cardinality({f \in added : ~IsRequiredArg(w[f])})

\* The number of changes of a severity in a result.
CountAll(cs, type) == Cardinality({i \in 1..Len(cs) : cs[i].Type = type})

Roots == {"query", "mutation", "subscription"}

\* DiffSchemas has returned for two schemas that state their roots and
\* directives.
CalledWithDefinition ==
    Called /\ "query" \in DOMAIN oldSchema /\ "query" \in DOMAIN newSchema

\* What DiffSchemas can return when the new schema has the roots of the old.
ResultsWithSameRoots ==
    DiffResults(oldSchema,
                [newSchema EXCEPT !.query = oldSchema.query,
                                  !.mutation = oldSchema.mutation,
                                  !.subscription = oldSchema.subscription],
                options)

\* C19: every root removed or changed to another type yields a BREAKING
\* change and every root newly introduced a NON_BREAKING change, on top of
\* the changes of the same schemas with equal roots.
RootOperationTypes ==
    CalledWithDefinition =>
        \A b \in ResultsWithSameRoots :
            /\ CountAll(changes, ChangeTypeBreaking) >=
                   CountAll(b[1], ChangeTypeBreaking)
                   + Cardinality({r \in Roots : /\ oldSchema[r] # NoRoot
                                                /\ newSchema[r] # oldSchema[r]})
            /\ CountAll(changes, ChangeTypeNonBreaking) >=
                   CountAll(b[1], ChangeTypeNonBreaking)
                   + Cardinality({r \in Roots : /\ oldSchema[r] = NoRoot
                                                /\ newSchema[r] # NoRoot})

\* What DiffSchemas can return when the new schema has the directives of
\* the old.
ResultsWithSameDirectives ==
    DiffResults(oldSchema, [newSchema EXCEPT !.directives = oldSchema.directives],
                options)

\* The locations of directives in both schemas that are in from and not in to.
LocationsLost(from, to) ==
    UNION {{<<d, l>> : l \in from.directives[d].locations \ to.directives[d].locations}
              : d \in DOMAIN from.directives \cap DOMAIN to.directives}

\* C20: unless directives are ignored, every directive added or removed
\* yields a change, every location removed from a directive a BREAKING
\* change and every location added a NON_BREAKING change, on top of the
\* changes of the same schemas with equal directives; when directives are
\* ignored the result is that of the schemas with equal directives.
DirectiveDiff ==
    CalledWithDefinition =>
        IF options # Nil /\ options.IgnoreDirectives
        THEN \E b \in ResultsWithSameDirectives : changes = b[1]
        ELSE \A b \in ResultsWithSameDirectives :
                /\ Len(changes) >= Len(b[1])
                       + Cardinality((DOMAIN oldSchema.directives \ DOMAIN newSchema.directives)
                             \cup (DOMAIN newSchema.directives \ DOMAIN oldSchema.directives))
                /\ CountAll(changes, ChangeTypeBreaking) >=
                       CountAll(b[1], ChangeTypeBreaking)
                       + Cardinality(LocationsLost(oldSchema, newSchema))
                /\ CountAll(changes, ChangeTypeNonBreaking) >=
                       CountAll(b[1], ChangeTypeNonBreaking)
                       + Cardinality(LocationsLost(newSchema, oldSchema))

\* C21: when a schema holds a field or argument whose type is not in that
\* schema, DiffSchemas returns an error and no change list.
IntegrityFailure ==
    (Called /\ (Dangling(oldSchema) \/ Dangling(newSchema)))
        => (err # NoError /\ changes = <<>>)

\* C22: for two schemas DiffSchemas returns no error, whatever the changes
\* and also with nil options; it returns an error only when a schema is
\* nil, and then no change list.
SeverityAsData ==
    pc = "done" =>
        /\ (oldSchema # Nil /\ newSchema # Nil) => err = NoError
        /\ err # NoError => ((oldSchema = Nil \/ newSchema = Nil) /\ changes = <<>>)

SeverityAsDataWitness ==
    /\ Called /\ options = Nil /\ err = NoError
    /\ \E i, j \in 1..Len(changes) :
          /\ changes[i].Type = ChangeTypeBreaking
          /\ changes[j].Type = ChangeTypeNonBreaking

\* C23: in every returned change Criticality is HIGH exactly when Type is
\* BREAKING, MEDIUM exactly when DANGEROUS, LOW exactly when NON_BREAKING.
CriticalityOneToOne ==
    Called =>
        \A i \in 1..Len(changes) :
            /\ changes[i].Criticality = "HIGH" <=> changes[i].Type = ChangeTypeBreaking
            /\ changes[i].Criticality = "MEDIUM" <=> changes[i].Type = ChangeTypeDangerous
            /\ changes[i].Criticality = "LOW" <=> changes[i].Type = ChangeTypeNonBreaking

CriticalityOneToOneWitness ==
    /\ Called
    /\ \E i, j \in 1..Len(changes) :
          /\ changes[i].Type = ChangeTypeDangerous
          /\ changes[j].Type # ChangeTypeDangerous

\* The changes that report a description.
IsDescriptionChange(c) ==
    c.Message \in {"Description for type changed", "Field description changed"}

\* The changes of a result that do not report a description.
OtherChanges(cs) == {cs[i] : i \in {j \in 1..Len(cs) : ~IsDescriptionChange(cs[j])}}

\* The types of the kinds in both schemas whose fields carry descriptions.
DescriptionsOf(kinds) ==
    LET typed == UNION {BothOfKind(k) : k \in kinds}
    IN [types |-> {n \in typed :
                      oldSchema.types[n].description # newSchema.types[n].description},
        fields |-> {nf \in UNION {{<<n, f>> : f \in DOMAIN oldSchema.types[n].fields
                                                   \cap DOMAIN newSchema.types[n].fields}
                                      : n \in typed} :
                      oldSchema.types[nf[1]].fields[nf[2]].Description
                             # newSchema.types[nf[1]].fields[nf[2]].Description}]

DescriptionChangesOf(kinds) ==
    Called =>
        IF options # Nil /\ options.IgnoreDescriptions
        THEN /\ \A i \in 1..Len(changes) : ~IsDescriptionChange(changes[i])
             /\ \E b \in DiffResults(oldSchema, newSchema,
                                     [options EXCEPT !.IgnoreDescriptions = FALSE]) :
                    OtherChanges(changes) = OtherChanges(b[1])
        ELSE /\ \A n \in DescriptionsOf(kinds).types :
                    \E i \in ChangesAt(n) :
                        /\ changes[i].Type = ChangeTypeNonBreaking
                        /\ changes[i].Message = "Description for type changed"
             /\ \A nf \in DescriptionsOf(kinds).fields :
                    \E i \in ChangesAt(FieldPath(nf[1], nf[2])) :
                        /\ changes[i].Type = ChangeTypeNonBreaking
                        /\ changes[i].Message = "Field description changed"

\* C24: unless descriptions are ignored, a type or field in both schemas
\* whose description differs yields a NON_BREAKING description change; when
\* descriptions are ignored no description change is returned and the other
\* changes are those returned when descriptions are not ignored.
DescriptionChanges == DescriptionChangesOf(Kinds)

\* The diff command has compared two loaded schemas and returned.
Exited == pc = "exited" /\ oldSchema # Nil /\ newSchema # Nil /\ err = NoError

\* A change of a severity that the flags make fatal, or of a worse one.
FatalChange ==
    \E i \in 1..Len(changes) :
        \/ flags.failOnBreaking /\ changes[i].Type = ChangeTypeBreaking
        \/ flags.failOnDangerous
             /\ changes[i].Type \in {ChangeTypeBreaking, ChangeTypeDangerous}

\* C25: in text and in JSON mode the diff command prints every change, and
\* it returns an error exactly when a change has a severity that its flags
\* make fatal, or a worse one.
CliExitStatus ==
    Exited =>
        /\ stdout.format # "none"
        /\ {stdout.changes[i] : i \in 1..Len(stdout.changes)}
               = {changes[i] : i \in 1..Len(changes)}
        /\ exit # NoError <=> FatalChange

\* C26: a call of DiffSchemas leaves both schemas and the options as they
\* were; it writes only the changes and the error it returns.
InputImmutability ==
    [][oldSchema' = oldSchema /\ newSchema' = newSchema /\ options' = options]_vars

InputImmutabilityWitness ==
    /\ Called /\ options = Nil
    /\ Len(changes) >= 2
    /\ oldSchema # newSchema

RECURSIVE Relaxes(_, _)
Relaxes(old, new) ==
    IF old = <<>> THEN new = <<>>
    ELSE IF Head(old) = "NonNull"
    THEN \/ Relaxes(Tail(old), new)
         \/ new # <<>> /\ Head(new) = "NonNull" /\ Relaxes(Tail(old), Tail(new))
    ELSE new # <<>> /\ Head(new) = "List" /\ Relaxes(Tail(old), Tail(new))

\* C28: a field type that differs from the old one only in NonNull wrappers
\* left out, at any depth and around the same named type, is reported as one
\* DANGEROUS type change.
NestedNullabilityRelaxation ==
    Called =>
        \A nf \in CommonFields :
            (/\ OldFieldType(nf).name = NewFieldType(nf).name
             /\ OldFieldType(nf).obj = NewFieldType(nf).obj
             /\ OldFieldType(nf).wrap # NewFieldType(nf).wrap
             /\ Relaxes(OldFieldType(nf).wrap, NewFieldType(nf).wrap))
                => /\ Cardinality(TypeChangesAt(FieldPath(nf[1], nf[2]))) = 1
                   /\ \A i \in TypeChangesAt(FieldPath(nf[1], nf[2])) :
                         changes[i].Type = ChangeTypeDangerous

\* C29: no two changes of a returned sequence have the same Type and the
\* same Path.
KeyUniqueness ==
    Called =>
        \A i, j \in 1..Len(changes) :
            (i # j /\ changes[i].Path = changes[j].Path)
                => changes[i].Type # changes[j].Type

KeyUniquenessWitness ==
    /\ Called
    /\ \E i, j \in 1..Len(changes) :
          /\ i # j
          /\ changes[i].Path = changes[j].Path
          /\ changes[i].Message = "Field changed type"
          /\ changes[j].Message = "Field description changed"
    /\ \E k \in 1..Len(changes) : changes[k].Message = "Argument was added to field"

\* The coverage of every tracked type is consistent.
Consistent(cov) ==
    \A n \in DOMAIN cov :
        /\ cov[n].Covered <=> \E f \in DOMAIN cov[n].Fields : cov[n].Fields[f]
        /\ cov[n].Covered <=> cov[n].UsageCount > 0
        /\ DOMAIN cov[n].Fields = {} => ~cov[n].Covered

\* C30: during and after an analysis a tracked type is Covered exactly when
\* one of its fields is covered and exactly when its UsageCount is positive;
\* a type without tracked fields is never Covered and is among the types
\* FindUnusedTypes returns; the covered counts do not exceed the totals.
CoverageInvariant ==
    /\ coverage # Nil => Consistent(coverage)
    /\ result # Nil =>
          /\ Consistent(result.Details)
          /\ result.FieldsCovered <= result.TotalFields
          /\ result.TypesCovered <= result.TotalTypes
    /\ (pc = "found" /\ schema # Nil) =>
          \A n \in DOMAIN schema.types :
              (~HasPrefix(n, <<95, 95>>) /\ schema.types[n].kind \notin {"Object", "Interface"})
                  => \E i \in 1..Len(unusedTypes) : unusedTypes[i] = n

CoverageInvariantWitness ==
    /\ pc = "analyzed" /\ result # Nil
    /\ \E n, m, k \in DOMAIN result.Details :
          /\ result.Details[n].UsageCount >= 2
          /\ \E f \in DOMAIN result.Details[n].Fields : ~result.Details[n].Fields[f]
          /\ DOMAIN result.Details[m].Fields = {}
          /\ DOMAIN result.Details[k].Fields # {} /\ ~result.Details[k].Covered

====
